---- MODULE Spec2Model ----
(***************************************************************************)
(* Model of fediverse_graphs.main.GraphLoader: the static catalog, the     *)
(* input validator, the date resolver and the two materializers.           *)
(*                                                                         *)
(* Conventions of the translation:                                         *)
(*  - Optional[x] is a sequence of length 0 (None) or 1 (<<x>>).           *)
(*  - a slash-delimited identifier "a/b/c/d" is the tuple of its segments  *)
(*    <<a, b, c, d>> (no segment of the model holds a slash).               *)
(*  - a raised exception is a result record whose kind is the exception    *)
(*    class; msg holds the parts of the formatted message.                 *)
(*  - every call on the dataset handle is appended to a log.               *)
(***************************************************************************)
EXTENDS Integers, Sequences, FiniteSets

(* ----------------------------- records -------------------------------- *)
\* the outcome of a call: a returned value or a raised exception
Outcome(kind, msg, value) == [kind |-> kind, msg |-> msg, value |-> value]

\* an outcome together with the calls made on the dataset handle
Out(r, l) == [res |-> r, log |-> l]

\* a call on the dataset handle
Event(ev, path) == [ev |-> ev, path |-> path]

\* a call on the loader with its arguments
Call(op, software, graph_type, index, date, only_largest_component) ==
  [op |-> op, software |-> software, graph_type |-> graph_type, index |-> index,
   date |-> date, only_largest_component |-> only_largest_component]

\* a graph of the container library
Graph(directed, nodes, weight) == [directed |-> directed, nodes |-> nodes, weight |-> weight]

\* an interaction record of the dataset
Record(Source, Target, Weight) == [Source |-> Source, Target |-> Target, Weight |-> Weight]

VARIABLES record_sets, stream, call, result, log

vars == <<record_sets, stream, call, result, log>>

(* ------------------------------ bounds -------------------------------- *)
MaxRecordSets == 2
MaxRecords == 3
MaxIndex == 3

(* --------------------------- Python values ---------------------------- *)
None == <<>>
Some(x) == <<x>>

Ok(v) == Outcome("ok", <<>>, v)
Raise(k, m) == Outcome(k, m, None)

EvRecordSets == Event("metadata.record_sets", <<>>)
EvRecords(csv_file) == Event("records", csv_file)

\* bool(index) for Optional[int]: None and 0 are falsy
TruthyIndex(index) == index # None /\ index[1] # 0

\* bool(date) for Optional[str]: None and "" are falsy
TruthyDate(date) == date # None /\ date[1] # ""

\* str(date) inside an f-string
FormatDate(date) == IF date = None THEN "None" ELSE date[1]


(* ------------------------------ catalog ------------------------------- *)
\* the dict, as its items in insertion order
VALID_GRAPH_TYPES ==
  << <<"bookwyrm", <<"federation">> >>,
     <<"friendica", <<"federation">> >>,
     <<"lemmy", <<"federation", "cross_instance", "intra_instance">> >>,
     <<"mastodon", <<"federation", "active_user">> >>,
     <<"misskey", <<"federation", "active_user">> >>,
     <<"peertube", <<"federation">> >>,
     <<"pleroma", <<"federation", "active_user">> >> >>

UNDIRECTED_GRAPHS == <<"federation">>

Range(s) == {s[i] : i \in 1..Len(s)}

\* list(VALID_GRAPH_TYPES.keys())
Keys == [i \in 1..Len(VALID_GRAPH_TYPES) |-> VALID_GRAPH_TYPES[i][1]]

\* VALID_GRAPH_TYPES[software], for a key of the dict
Lookup(software) ==
  LET i == CHOOSE j \in 1..Len(VALID_GRAPH_TYPES) : VALID_GRAPH_TYPES[j][1] = software
  IN VALID_GRAPH_TYPES[i][2]

(* ----------------------------- validator ------------------------------ *)
\* mutant: the graph type is not checked against the software's entry
_check_input_software_only(software, graph_type) ==
  IF software \notin Range(Keys)
  THEN Raise("ValueError", <<"Invalid software! Valid software: ", Keys>>)
  ELSE Ok(None)

_check_input(software, graph_type) ==
  IF software \notin Range(Keys)
  THEN Raise("ValueError", <<"Invalid software! Valid software: ", Keys>>)
  ELSE IF graph_type \notin Range(Lookup(software))
  THEN Raise("ValueError",
             <<graph_type, " is not a valid graph type for ", software,
               ". Valid types: ", Lookup(software)>>)
  ELSE Ok(None)

(* --------------------------- date resolver ---------------------------- *)
\* the characters of a date token, for str comparison
Codes(d) ==
  CASE d = "20241230" -> <<2, 0, 2, 4, 1, 2, 3, 0>>
    [] d = "20250203" -> <<2, 0, 2, 5, 0, 2, 0, 3>>

RECURSIVE SeqLess(_, _)
SeqLess(a, b) ==
  IF b = <<>> THEN FALSE
  ELSE IF a = <<>> THEN TRUE
  ELSE IF a[1] # b[1] THEN a[1] < b[1]
  ELSE SeqLess(Tail(a), Tail(b))

\* str.__lt__: lexicographic comparison
StrLess(x, y) == SeqLess(Codes(x), Codes(y))

\* insertion of x in an ascending list, after its equals (stable)
RECURSIVE Insert(_, _)
Insert(x, s) ==
  IF s = <<>> THEN <<x>>
  ELSE IF StrLess(x, s[1]) THEN <<x>> \o s
  ELSE <<s[1]>> \o Insert(x, Tail(s))

\* list.sort()
RECURSIVE Sort(_)
Sort(s) == IF s = <<>> THEN <<>> ELSE Insert(s[Len(s)], Sort(SubSeq(s, 1, Len(s) - 1)))

\* "interactions.csv" in uuid: a substring test on the whole identifier; among
\* the segments of the model only the file name interactions.csv holds it
HasInteractions(uuid) == \E i \in 1..Len(uuid) : uuid[i] = "interactions.csv"

\* the loop of list_available_dates over the record sets
RECURSIVE CollectDates(_, _, _)
CollectDates(rs, software, graph_type) ==
  IF rs = <<>> THEN <<>>
  ELSE LET uuid == rs[1]
           rest == CollectDates(Tail(rs), software, graph_type)
       IN IF ~HasInteractions(uuid) THEN rest
          ELSE IF uuid[1] = software /\ uuid[2] = graph_type THEN <<uuid[3]>> \o rest
          ELSE rest

\* mutant: the dates are returned in descriptor order, not sorted
list_available_dates_unsorted(software, graph_type, rs) ==
  LET chk == _check_input(software, graph_type)
  IN IF chk.kind # "ok" THEN Out(chk, <<>>)
     ELSE Out(Ok(CollectDates(rs, software, graph_type)), <<EvRecordSets>>)

list_available_dates(software, graph_type, rs) ==
  LET chk == _check_input(software, graph_type)
  IN IF chk.kind # "ok" THEN Out(chk, <<>>)
     ELSE Out(Ok(Sort(CollectDates(rs, software, graph_type))), <<EvRecordSets>>)

\* mutant: a negative index is out of range
ListIndexNonNegative(dates, index) ==
  IF index >= 0 /\ index < Len(dates) THEN Ok(dates[index + 1])
  ELSE Raise("IndexError", <<"list index out of range">>)

\* dates[index] on a Python list
ListIndex(dates, index) ==
  IF index >= 0 /\ index < Len(dates) THEN Ok(dates[index + 1])
  ELSE IF index < 0 /\ -index <= Len(dates) THEN Ok(dates[Len(dates) + index + 1])
  ELSE Raise("IndexError", <<"list index out of range">>)

_fetch_date_index(software, graph_type, index, rs) ==
  LET d == list_available_dates(software, graph_type, rs)
  IN IF d.res.kind # "ok" THEN d
     ELSE IF Len(d.res.value) = 0
     THEN Out(Raise("ValueError", <<"No graph available for ", software, "+", graph_type>>), d.log)
     ELSE LET e == ListIndex(d.res.value, index)
          IN IF e.kind # "ok"
             THEN Out(Raise("ValueError", <<"Invalid index: ", index>>), d.log)
             ELSE Out(e, d.log)

\* mutant: the first date of the list is taken for the latest
_fetch_latest_date_first(software, graph_type, rs) ==
  LET d == list_available_dates(software, graph_type, rs)
  IN IF d.res.kind # "ok" THEN d
     ELSE IF Len(d.res.value) = 0
     THEN Out(Raise("ValueError", <<"No graph available for ", software, "+", graph_type>>), d.log)
     ELSE Out(Ok(d.res.value[1]), d.log)

_fetch_latest_date(software, graph_type, rs) ==
  LET d == list_available_dates(software, graph_type, rs)
  IN IF d.res.kind # "ok" THEN d
     ELSE IF Len(d.res.value) = 0
     THEN Out(Raise("ValueError", <<"No graph available for ", software, "+", graph_type>>), d.log)
     ELSE Out(Ok(d.res.value[Len(d.res.value)]), d.log)

list_all_software == Ok(Keys)

list_graph_types(software) ==
  IF software \notin Range(Keys)
  THEN Raise("ValueError", <<"Invalid software! Valid software: ", Keys>>)
  ELSE Ok(Lookup(software))

(* ------------------------- record streaming --------------------------- *)
\* bytes.decode() on the instance identifiers of the model (UTF-8, one byte each)
Decode(b) ==
  CASE b = <<97>> -> "a"
    [] b = <<98>> -> "b"
    [] b = <<99>> -> "c"

\* the field name csv_file + "/" + column
Field(csv_file, column) == csv_file \o <<column>>

\* one interaction record of the file csv_file
InteractionRow(csv_file, r) ==
  [k \in {Field(csv_file, "Source"), Field(csv_file, "Target"), Field(csv_file, "Weight")} |->
     IF k = Field(csv_file, "Source") THEN r.Source
     ELSE IF k = Field(csv_file, "Target") THEN r.Target
     ELSE r.Weight]

\* one instance record of the file csv_file
InstanceRow(csv_file, r) ==
  [k \in {Field(csv_file, "Host"), Field(csv_file, "UserCount")} |->
     IF k = Field(csv_file, "Host") THEN r.Source ELSE r.Weight]

\* self.dataset.records(csv_file): the rows of a record set of the dataset; a
\* path that names no record set is refused by the record source
records(csv_file, rs, st) ==
  IF csv_file \notin Range(rs)
  THEN Raise("UpstreamError", <<"Unknown record set: ", csv_file>>)
  ELSE IF csv_file[4] = "interactions.csv"
  THEN Ok([i \in 1..Len(st) |-> InteractionRow(csv_file, st[i])])
  ELSE Ok([i \in 1..Len(st) |-> InstanceRow(csv_file, st[i])])

(* ------------------------- graph container ---------------------------- *)
\* nx.Graph() / nx.DiGraph(): nodes in insertion order, weight by adjacency pair
EmptyGraph(directed) == Graph(directed, <<>>, [p \in {} |-> 0])

\* mutant: a directed container whatever the graph type
new_graph_directed(graph_type) == EmptyGraph(TRUE)

new_graph(graph_type) ==
  IF graph_type \in Range(UNDIRECTED_GRAPHS) THEN EmptyGraph(FALSE) ELSE EmptyGraph(TRUE)

AddNode(nodes, n) == IF n \in Range(nodes) THEN nodes ELSE Append(nodes, n)

\* mutant: an edge already present keeps its first weight
add_edge_keep_first(graph, source, target, weight) ==
  LET keys == IF graph.directed THEN {<<source, target>>}
              ELSE {<<source, target>>, <<target, source>>}
  IN Graph(graph.directed,
           AddNode(AddNode(graph.nodes, source), target),
           [p \in DOMAIN graph.weight \cup keys |->
              IF p \in DOMAIN graph.weight THEN graph.weight[p] ELSE weight])

\* graph.add_edge(source, target, weight=weight)
add_edge(graph, source, target, weight) ==
  LET keys == IF graph.directed THEN {<<source, target>>}
              ELSE {<<source, target>>, <<target, source>>}
  IN Graph(graph.directed,
           AddNode(AddNode(graph.nodes, source), target),
           [p \in DOMAIN graph.weight \cup keys |->
              IF p \in keys THEN weight ELSE graph.weight[p]])

\* the loop over the records
RECURSIVE BuildGraph(_, _, _)
BuildGraph(graph, csv_file, rows) ==
  IF rows = <<>> THEN graph
  ELSE LET record == rows[1]
           source == Decode(record[Field(csv_file, "Source")])
           target == Decode(record[Field(csv_file, "Target")])
           weight == record[Field(csv_file, "Weight")]
       IN BuildGraph(add_edge(graph, source, target, weight), csv_file, Tail(rows))

\* the nodes reachable from S along adjacency
RECURSIVE Reach(_, _)
Reach(graph, S) ==
  LET T == S \cup {v \in Range(graph.nodes) : \E u \in S : <<u, v>> \in DOMAIN graph.weight}
  IN IF T = S THEN S ELSE Reach(graph, T)

RECURSIVE ComponentsFrom(_, _, _)
ComponentsFrom(graph, ns, seen) ==
  IF ns = <<>> THEN <<>>
  ELSE IF ns[1] \in seen THEN ComponentsFrom(graph, Tail(ns), seen)
  ELSE LET c == Reach(graph, {ns[1]})
       IN <<c>> \o ComponentsFrom(graph, Tail(ns), seen \cup c)

\* nx.connected_components(graph): not implemented for directed graphs
connected_components(graph) ==
  IF graph.directed
  THEN Raise("NetworkXNotImplemented", <<"not implemented for directed type">>)
  ELSE Ok(ComponentsFrom(graph, graph.nodes, {}))

\* max(components, key=len): the first of the largest
MaxByLen(comps) ==
  IF comps = <<>> THEN Raise("ValueError", <<"max() arg is an empty sequence">>)
  ELSE LET i == CHOOSE j \in 1..Len(comps) :
                  /\ \A k \in 1..Len(comps) : Cardinality(comps[k]) <= Cardinality(comps[j])
                  /\ \A k \in 1..(j - 1) : Cardinality(comps[k]) < Cardinality(comps[j])
       IN Ok(comps[i])

\* graph.subgraph(nodes)
subgraph(graph, ns) ==
  Graph(graph.directed,
        SelectSeq(graph.nodes, LAMBDA n : n \in ns),
        [p \in {q \in DOMAIN graph.weight : q[1] \in ns /\ q[2] \in ns} |-> graph.weight[p]])

largest_component(graph) ==
  LET cc == connected_components(graph)
  IN IF cc.kind # "ok" THEN cc
     ELSE LET largest_cc == MaxByLen(cc.value)
          IN IF largest_cc.kind # "ok" THEN largest_cc
             ELSE Ok(subgraph(graph, largest_cc.value))

(* --------------------------- materializers ---------------------------- *)
get_graph(software, graph_type, index, date, only_largest_component, rs, st) ==
  LET chk == _check_input(software, graph_type)
  IN IF chk.kind # "ok" THEN Out(chk, <<>>)
     ELSE IF TruthyIndex(index) /\ TruthyDate(date)
     THEN Out(Raise("ValueError",
                    <<"You must provide either the date or the index of the graph, not both.">>),
              <<>>)
     ELSE
       LET byIndex == IF TruthyIndex(index)
                      THEN _fetch_date_index(software, graph_type, index[1], rs)
                      ELSE Out(Ok(None), <<>>)
       IN IF byIndex.res.kind # "ok" THEN byIndex
          ELSE
            LET date1 == IF TruthyIndex(index) THEN Some(byIndex.res.value) ELSE date
                latest == IF index = None /\ date1 = None
                          THEN _fetch_latest_date(software, graph_type, rs)
                          ELSE Out(Ok(None), <<>>)
            IN IF latest.res.kind # "ok" THEN Out(latest.res, byIndex.log \o latest.log)
               ELSE
                 LET date2 == IF index = None /\ date1 = None
                              THEN Some(latest.res.value) ELSE date1
                     csv_file == <<software, graph_type, FormatDate(date2), "interactions.csv">>
                     lg == byIndex.log \o latest.log \o <<EvRecords(csv_file)>>
                     recs == records(csv_file, rs, st)
                 IN IF recs.kind # "ok" THEN Out(recs, lg)
                    ELSE
                      LET graph == BuildGraph(new_graph(graph_type), csv_file, recs.value)
                      IN IF only_largest_component
                         THEN Out(largest_component(graph), lg)
                         ELSE Out(Ok(graph), lg)

\* df.rename(columns={col: col.split("/")[-1] ...})
RenameColumns(row) ==
  [c \in {k[Len(k)] : k \in DOMAIN row} |->
     row[CHOOSE k \in DOMAIN row : k[Len(k)] = c]]

get_graph_metadata(software, graph_type, date, rs, st) ==
  LET chk == _check_input(software, graph_type)
  IN IF chk.kind # "ok" THEN Out(chk, <<>>)
     ELSE
       LET latest == IF date = "latest"
                     THEN _fetch_latest_date(software, graph_type, rs)
                     ELSE Out(Ok(date), <<>>)
       IN IF latest.res.kind # "ok" THEN latest
          ELSE
            LET csv_file == <<software, graph_type, latest.res.value, "instances.csv">>
                lg == latest.log \o <<EvRecords(csv_file)>>
                recs == records(csv_file, rs, st)
            IN IF recs.kind # "ok" THEN Out(recs, lg)
               ELSE Out(Ok([i \in 1..Len(recs.value) |-> RenameColumns(recs.value[i])]), lg)

(* ------------------------------ inputs -------------------------------- *)
SoftwareInputs == {"lemmy", "mastodon", "diaspora"}
GraphTypeInputs == {"federation", "active_user", "followers"}
DateTokens == {"20241230", "20250203"}
IndexInputs == {None} \cup {Some(i) : i \in (-MaxIndex)..MaxIndex}
DateInputs == {None, Some(""), Some("latest")} \cup {Some(d) : d \in DateTokens}
MetadataDateInputs == {"latest", ""} \cup DateTokens

\* the record sets a dataset may hold: software/graph_type/date/filename
Descriptors ==
  {<<p[1], p[2], d, f>> :
     p \in {<<"mastodon", "federation">>, <<"mastodon", "active_user">>, <<"lemmy", "federation">>},
     d \in DateTokens, f \in {"interactions.csv", "instances.csv"}}

SeqsUpTo(S, n) == UNION {[1..k -> S] : k \in 0..n}

\* record-set identifiers are unique within a dataset
Distinct(s) == \A i, j \in 1..Len(s) : i # j => s[i] # s[j]

Nodes == {<<97>>, <<98>>, <<99>>}
Weights == {1, 2}
RecordInputs == {Record(a, b, w) : a \in Nodes, b \in Nodes, w \in Weights}

\* [(A,B,1.0), (B,C,2.0), (A,B,5.0)]
ExampleStream ==
  <<Record(<<97>>, <<98>>, 1), Record(<<98>>, <<99>>, 2), Record(<<97>>, <<98>>, 5)>>

GraphRecordSets ==
  << <<"mastodon", "federation", "20250203", "interactions.csv">>,
     <<"mastodon", "active_user", "20250203", "interactions.csv">> >>

(* --------------------------- state machine ---------------------------- *)
\* no call in progress: the caller holds no outcome
NoCall == Call("", "", "", None, None, FALSE)

\* the loader after construction on a dataset
Init ==
  /\ record_sets \in {s \in SeqsUpTo(Descriptors, MaxRecordSets) : Distinct(s)}
  /\ stream = ExampleStream
  /\ call = NoCall
  /\ result = Ok(None)
  /\ log = <<>>

\* Each operation is a synchronous call: it starts when the caller is idle and
\* leaves its outcome and the calls it made on the dataset handle.
ListAllSoftware ==
  /\ call = NoCall
  /\ call' = Call("list_all_software", "", "", None, None, FALSE)
  /\ result' = list_all_software
  /\ log' = <<>>
  /\ UNCHANGED <<record_sets, stream>>

ListGraphTypes ==
  \E software \in SoftwareInputs :
    /\ call = NoCall
    /\ call' = Call("list_graph_types", software, "", None, None, FALSE)
    /\ result' = list_graph_types(software)
    /\ log' = <<>>
    /\ UNCHANGED <<record_sets, stream>>

ListAvailableDates ==
  \E software \in SoftwareInputs, graph_type \in GraphTypeInputs :
    LET out == list_available_dates(software, graph_type, record_sets)
    IN /\ call = NoCall
       /\ call' = Call("list_available_dates", software, graph_type, None, None, FALSE)
       /\ result' = out.res
       /\ log' = out.log
       /\ UNCHANGED <<record_sets, stream>>

FetchDateIndex ==
  \E software \in SoftwareInputs, graph_type \in GraphTypeInputs, i \in (-MaxIndex)..MaxIndex :
    LET out == _fetch_date_index(software, graph_type, i, record_sets)
    IN /\ call = NoCall
       /\ call' = Call("_fetch_date_index", software, graph_type, Some(i), None, FALSE)
       /\ result' = out.res
       /\ log' = out.log
       /\ UNCHANGED <<record_sets, stream>>

FetchLatestDate ==
  \E software \in SoftwareInputs, graph_type \in GraphTypeInputs :
    LET out == _fetch_latest_date(software, graph_type, record_sets)
    IN /\ call = NoCall
       /\ call' = Call("_fetch_latest_date", software, graph_type, None, None, FALSE)
       /\ result' = out.res
       /\ log' = out.log
       /\ UNCHANGED <<record_sets, stream>>

GetGraph ==
  \E software \in SoftwareInputs, graph_type \in GraphTypeInputs,
     index \in IndexInputs, date \in DateInputs, olc \in BOOLEAN :
    LET out == get_graph(software, graph_type, index, date, olc, record_sets, stream)
    IN /\ call = NoCall
       /\ call' = Call("get_graph", software, graph_type, index, date, olc)
       /\ result' = out.res
       /\ log' = out.log
       /\ UNCHANGED <<record_sets, stream>>

GetGraphMetadata ==
  \E software \in SoftwareInputs, graph_type \in GraphTypeInputs, date \in MetadataDateInputs :
    LET out == get_graph_metadata(software, graph_type, date, record_sets, stream)
    IN /\ call = NoCall
       /\ call' = Call("get_graph_metadata", software, graph_type, None, Some(date), FALSE)
       /\ result' = out.res
       /\ log' = out.log
       /\ UNCHANGED <<record_sets, stream>>

\* the caller takes the outcome; the loader keeps nothing of the call
Idle ==
  /\ call # NoCall
  /\ call' = NoCall
  /\ result' = Ok(None)
  /\ log' = <<>>
  /\ UNCHANGED <<record_sets, stream>>

Next ==
  \/ Idle
  \/ ListAllSoftware
  \/ ListGraphTypes
  \/ ListAvailableDates
  \/ FetchDateIndex
  \/ FetchLatestDate
  \/ GetGraph
  \/ GetGraphMetadata

Spec == Init /\ [][Next]_vars

\* graph construction over every short stream of interaction records
InitGraph ==
  /\ record_sets = GraphRecordSets
  /\ stream \in SeqsUpTo(RecordInputs, MaxRecords) \cup {ExampleStream}
  /\ call = NoCall
  /\ result = Ok(None)
  /\ log = <<>>

\* get_graph() with the default selectors, on a pair of each directedness
GetGraphLatest ==
  \E graph_type \in {"federation", "active_user"}, olc \in BOOLEAN :
    LET out == get_graph("mastodon", graph_type, None, None, olc, record_sets, stream)
    IN /\ call = NoCall
       /\ call' = Call("get_graph", "mastodon", graph_type, None, None, olc)
       /\ result' = out.res
       /\ log' = out.log
       /\ UNCHANGED <<record_sets, stream>>

NextGraph == GetGraphLatest \/ Idle

SpecGraph == InitGraph /\ [][NextGraph]_vars

(* ---------------------- vocabulary of the claims ----------------------- *)
ValidSoftware(software) ==
  \E i \in 1..Len(VALID_GRAPH_TYPES) : VALID_GRAPH_TYPES[i][1] = software

ValidPair(software, graph_type) ==
  \E i \in 1..Len(VALID_GRAPH_TYPES) :
    /\ VALID_GRAPH_TYPES[i][1] = software
    /\ \E j \in 1..Len(VALID_GRAPH_TYPES[i][2]) : VALID_GRAPH_TYPES[i][2][j] = graph_type

CallValid == ValidPair(call.software, call.graph_type)

\* the interactions record sets of the pair the call names
Matching ==
  {i \in 1..Len(record_sets) :
     /\ record_sets[i][1] = call.software
     /\ record_sets[i][2] = call.graph_type
     /\ record_sets[i][4] = "interactions.csv"}

AvailableDates == {record_sets[i][3] : i \in Matching}

\* order of the date tokens as calendar dates (YYYYMMDD)
Earlier(d, e) == d = "20241230" /\ e = "20250203"

\* the k-th date (from 1) of the available dates in ascending order
DateAt(k) ==
  CHOOSE d \in AvailableDates : Cardinality({e \in AvailableDates : Earlier(e, d)}) = k - 1

LatestDate == CHOOSE d \in AvailableDates : \A e \in AvailableDates : ~Earlier(d, e)

\* the paths handed to dataset.records during the call
Streamed == {log[i].path : i \in {j \in 1..Len(log) : log[j].ev = "records"}}

InteractionsPath(d) == <<call.software, call.graph_type, d, "interactions.csv">>

IsError(text) == result.kind = "ValueError" /\ result.msg[1] = text

NoGraphError ==
  /\ result.kind = "ValueError"
  /\ result.msg = <<"No graph available for ", call.software, "+", call.graph_type>>

BothSelectorsText == "You must provide either the date or the index of the graph, not both."

(* ------------------------------- claims -------------------------------- *)
\* C1: get_graph on a valid pair with both index and date supplied (neither is
\* None), index 0 and the empty date included, fails with the invalid-argument
\* error and returns no graph.
C1_BothSelectorsRejected ==
  (call.op = "get_graph" /\ CallValid /\ call.index # None /\ call.date # None)
    => (IsError(BothSelectorsText) /\ Streamed = {})

\* C2: get_graph with an in-range index and no date, on a pair with at least one
\* dated partition, reads the interactions file of the date at position index of
\* the ascending list of available dates (0 the earliest, -1 the latest).
C2_IndexSelectsSortedDate ==
  LET n == Cardinality(AvailableDates)
      i == call.index[1]
  IN (call.op = "get_graph" /\ CallValid /\ call.index # None /\ call.date = None
        /\ n >= 1 /\ -n <= i /\ i <= n - 1)
       => Streamed = {InteractionsPath(DateAt(IF i >= 0 THEN i + 1 ELSE n + i + 1))}

\* C3 (as stated): get_graph with no index and date "latest" resolves the date to
\* the maximum available date, and so reads the path that get_graph() reads.
C3_LatestIsSentinelInGetGraph ==
  (call.op = "get_graph" /\ CallValid /\ call.index = None /\ call.date = Some("latest")
     /\ AvailableDates # {})
    => Streamed = {InteractionsPath(LatestDate)}

\* C3 (amended): get_graph with no index uses any explicit date, "latest" and the
\* empty string included, directly as the partition date; only an absent date is
\* resolved to the maximum available date. "latest" is a sentinel in
\* get_graph_metadata alone, which then reads {max date}/instances.csv.
C3_ExplicitDateUsedDirectly ==
  /\ (call.op = "get_graph" /\ CallValid /\ call.index = None /\ call.date # None)
       => Streamed = {InteractionsPath(call.date[1])}
  /\ (call.op = "get_graph" /\ CallValid /\ call.index = None /\ call.date = None
        /\ AvailableDates # {})
       => Streamed = {InteractionsPath(LatestDate)}
  /\ (call.op = "get_graph_metadata" /\ CallValid /\ call.date = Some("latest")
        /\ AvailableDates # {})
       => Streamed = {<<call.software, call.graph_type, LatestDate, "instances.csv">>}

C3_Witness ==
  /\ call.op = "get_graph" /\ CallValid /\ call.index = None
  /\ call.date = Some("latest")
  /\ Cardinality(AvailableDates) = 2
  /\ Streamed = {InteractionsPath("latest")}

\* C4: every public operation taking software fails with the invalid-argument
\* error listing exactly the catalog's keys when software is unknown; those
\* taking graph_type fail with the invalid-argument error naming exactly that
\* software's types when graph_type is not among them; and the dataset handle
\* is not touched (no date resolution, no record streaming) in either case.
C4_ValidationFirst ==
  /\ (call.op \in {"list_graph_types", "list_available_dates", "get_graph", "get_graph_metadata"}
        /\ ~ValidSoftware(call.software))
       => /\ IsError("Invalid software! Valid software: ")
          /\ result.msg[2] = <<"bookwyrm", "friendica", "lemmy", "mastodon", "misskey",
                               "peertube", "pleroma">>
          /\ log = <<>>
  /\ (call.op \in {"list_available_dates", "get_graph", "get_graph_metadata"}
        /\ ValidSoftware(call.software) /\ ~CallValid)
       => /\ result.kind = "ValueError"
          /\ Len(result.msg) = 5
          /\ result.msg[1] = call.graph_type
          /\ result.msg[2] = " is not a valid graph type for "
          /\ result.msg[3] = call.software
          /\ \E i \in 1..Len(VALID_GRAPH_TYPES) :
               /\ VALID_GRAPH_TYPES[i][1] = call.software
               /\ result.msg[5] = VALID_GRAPH_TYPES[i][2]
          /\ log = <<>>

C4_Witness ==
  /\ call.op = "get_graph"
  /\ call.software = "mastodon" /\ call.graph_type = "followers"
  /\ call.index = None /\ call.date = Some("20250203")
  /\ \E i \in 1..Len(record_sets) : record_sets[i][1] = "mastodon"
  /\ result.kind = "ValueError"
  /\ log = <<>>

\* C5: list_available_dates on a valid pair returns, in ascending order, exactly
\* the date segments of the interactions.csv descriptors of that pair, whatever
\* the order of the descriptors, and the empty list when there is none.
C5_SortedMatchingDates ==
  (call.op = "list_available_dates" /\ CallValid)
    => /\ result.kind = "ok"
       /\ \A i, j \in 1..Len(result.value) : i < j => ~Earlier(result.value[j], result.value[i])
       /\ \A d \in DateTokens \cup Range(result.value) :
            Cardinality({i \in 1..Len(result.value) : result.value[i] = d})
              = Cardinality({i \in Matching : record_sets[i][3] = d})

C5_Witness ==
  /\ call.op = "list_available_dates" /\ CallValid
  /\ Len(record_sets) = 2
  /\ Matching = {1, 2}
  /\ Earlier(record_sets[2][3], record_sets[1][3])
  /\ result.kind = "ok"
  /\ Len(result.value) = 2

\* C6: on a valid pair with no interactions record set, get_graph without a date
\* (with or without an index) and get_graph_metadata with the default date fail
\* with the "no graph available" error before any record is streamed.
C6_NoGraphAvailable ==
  (/\ CallValid
   /\ AvailableDates = {}
   /\ \/ call.op = "get_graph" /\ call.date = None
      \/ call.op = "get_graph_metadata" /\ call.date = Some("latest"))
    => (NoGraphError /\ Streamed = {})

\* C7: on a non-empty date list of length n, _fetch_date_index returns the
\* element at index (end-relative when negative) for -n <= index <= n-1 and fails
\* with the invalid-index error otherwise; get_graph with such an out-of-range
\* index and no date fails with that error and streams nothing.
C7_IndexRange ==
  LET n == Cardinality(AvailableDates)
      i == call.index[1]
  IN /\ (call.op = "_fetch_date_index" /\ CallValid /\ n >= 1)
          => IF -n <= i /\ i <= n - 1
             THEN /\ result.kind = "ok"
                  /\ result.value = DateAt(IF i >= 0 THEN i + 1 ELSE n + i + 1)
             ELSE /\ IsError("Invalid index: ")
                  /\ result.msg[2] = i
     /\ (call.op = "get_graph" /\ CallValid /\ n >= 1 /\ call.index # None
           /\ call.date = None /\ (i < -n \/ i > n - 1))
          => /\ IsError("Invalid index: ")
             /\ result.msg[2] = i
             /\ Streamed = {}

C7_Witness ==
  /\ call.op = "get_graph" /\ CallValid
  /\ Cardinality(AvailableDates) = 2
  /\ call.index = Some(-3) /\ call.date = None
  /\ IsError("Invalid index: ")

(* ------------------- vocabulary of the graph claims -------------------- *)
SourceOf(i) == Decode(stream[i].Source)
TargetOf(i) == Decode(stream[i].Target)

\* records i and j name the same edge of a container of that directedness
SameEdge(directed, i, j) ==
  \/ SourceOf(i) = SourceOf(j) /\ TargetOf(i) = TargetOf(j)
  \/ ~directed /\ SourceOf(i) = TargetOf(j) /\ TargetOf(i) = SourceOf(j)

\* record i is the last one in stream order for its edge
LastForEdge(directed, i) == \A j \in (i + 1)..Len(stream) : ~SameEdge(directed, i, j)

\* graph.number_of_edges(): an undirected edge is held under both orientations
NumberOfEdges(graph) ==
  IF graph.directed THEN Cardinality(DOMAIN graph.weight)
  ELSE Cardinality({{p[1], p[2]} : p \in DOMAIN graph.weight})

StreamNodes == {SourceOf(i) : i \in 1..Len(stream)} \cup {TargetOf(i) : i \in 1..Len(stream)}

\* the nodes joined to those of S by records, whatever their orientation
RECURSIVE Joined(_)
Joined(S) ==
  LET T == S \cup {TargetOf(i) : i \in {j \in 1..Len(stream) : SourceOf(j) \in S}}
             \cup {SourceOf(i) : i \in {j \in 1..Len(stream) : TargetOf(j) \in S}}
  IN IF T = S THEN S ELSE Joined(T)

WeakComponents == {Joined({n}) : n \in StreamNodes}

(* ---------------------------- graph claims ----------------------------- *)
\* C8: without only_largest_component, the graph get_graph returns has as nodes
\* exactly the Source and Target values of the records, exactly one edge per
\* distinct endpoint pair, and on each edge the Weight of the last record of
\* that pair; [(A,B,1),(B,C,2),(A,B,5)] gives 3 nodes, 2 edges, weight(A,B) = 5.
C8_LastWriteWins ==
  (call.op = "get_graph" /\ ~call.only_largest_component)
    => /\ result.kind = "ok"
       /\ LET g == result.value
          IN /\ Range(g.nodes) = StreamNodes
             /\ Len(g.nodes) = Cardinality(StreamNodes)
             /\ NumberOfEdges(g)
                  = Cardinality({i \in 1..Len(stream) : LastForEdge(g.directed, i)})
             /\ \A p \in DOMAIN g.weight :
                  \E i \in 1..Len(stream) :
                    \/ p = <<SourceOf(i), TargetOf(i)>>
                    \/ ~g.directed /\ p = <<TargetOf(i), SourceOf(i)>>
             /\ \A i \in 1..Len(stream) :
                  LastForEdge(g.directed, i)
                    => /\ <<SourceOf(i), TargetOf(i)>> \in DOMAIN g.weight
                       /\ g.weight[<<SourceOf(i), TargetOf(i)>>] = stream[i].Weight
             /\ stream = ExampleStream
                  => /\ Len(g.nodes) = 3
                     /\ NumberOfEdges(g) = 2
                     /\ g.weight[<<"a", "b">>] = 5

C8_Witness ==
  /\ call.op = "get_graph" /\ ~call.only_largest_component
  /\ stream = ExampleStream
  /\ result.kind = "ok"
  /\ result.value.weight[<<"a", "b">>] = 5

\* C9: with only_largest_component, for undirected and directed graph types
\* alike, get_graph returns the subgraph induced by a connected component of
\* maximum node count, connectivity taken as undirected: its nodes are that
\* component's nodes and its edges the original edges inside it.
C9_LargestComponent ==
  (call.op = "get_graph" /\ call.only_largest_component /\ stream # <<>>)
    => /\ result.kind = "ok"
       /\ LET g == result.value
              directed == call.graph_type # "federation"
          IN \E c \in WeakComponents :
               /\ \A e \in WeakComponents : Cardinality(e) <= Cardinality(c)
               /\ Range(g.nodes) = c
               /\ DOMAIN g.weight =
                    {p \in c \X c :
                       \E i \in 1..Len(stream) :
                         \/ p = <<SourceOf(i), TargetOf(i)>>
                         \/ ~directed /\ p = <<TargetOf(i), SourceOf(i)>>}

\* C9 on the undirected graph type alone, where the components are computed
C9_LargestComponentUndirected ==
  call.graph_type = "federation" => C9_LargestComponent

\* C10: the graph is undirected exactly when graph_type is federation: there
\* (A,B) and (B,A) are one edge and the later record's weight overwrites; for
\* every other graph type the graph is directed and (A,B), (B,A) are distinct
\* edges, each with the weight of the last record of its own orientation.
C10_Directedness ==
  (call.op = "get_graph" /\ result.kind = "ok")
    => LET g == result.value
           Recs(a, b) == {i \in 1..Len(stream) : SourceOf(i) = a /\ TargetOf(i) = b}
           Last(I) == CHOOSE i \in I : \A j \in I : j <= i
       IN /\ g.directed = (call.graph_type # "federation")
          /\ (call.graph_type = "federation" /\ ~call.only_largest_component)
               => \A a \in StreamNodes, b \in StreamNodes :
                    LET I == Recs(a, b) \cup Recs(b, a)
                    IN IF I = {} THEN <<a, b>> \notin DOMAIN g.weight
                       ELSE /\ <<a, b>> \in DOMAIN g.weight
                            /\ <<b, a>> \in DOMAIN g.weight
                            /\ g.weight[<<a, b>>] = stream[Last(I)].Weight
                            /\ g.weight[<<b, a>>] = stream[Last(I)].Weight
          /\ (call.graph_type # "federation" /\ ~call.only_largest_component)
               => \A a \in StreamNodes, b \in StreamNodes :
                    LET I == Recs(a, b)
                    IN IF I = {} THEN <<a, b>> \notin DOMAIN g.weight
                       ELSE /\ <<a, b>> \in DOMAIN g.weight
                            /\ g.weight[<<a, b>>] = stream[Last(I)].Weight

C10_Witness ==
  /\ call.op = "get_graph" /\ call.graph_type = "federation"
  /\ ~call.only_largest_component
  /\ stream = <<Record(<<97>>, <<98>>, 1), Record(<<98>>, <<97>>, 2)>>
  /\ result.kind = "ok"
  /\ ~result.value.directed
  /\ result.value.weight[<<"a", "b">>] = 2

====
